---- MODULE Spec2Model ----
(***************************************************************************)
(* switch_model/policies/Curtailment.py as a state machine.                *)
(*                                                                         *)
(* The module is driven through the lifecycle                              *)
(*   define_components -> load_inputs -> create_instance -> solve          *)
(*   -> post_solve                                                         *)
(* on one shared model object.  The state below is that model object       *)
(* (the components the module attaches and the base-model data it reads),  *)
(* the inputs directory, the data portal, the solver's values and the two  *)
(* report files.                                                           *)
(*                                                                         *)
(* Units.  Rates are kept in tenths (0.2 is 2, the default 1 is 10), so    *)
(* "lhs <= rate * rhs" is checked as "10 * lhs <= rate * rhs".  Timepoint  *)
(* weights in a year are multiples of 1000 hours, so the report's          *)
(* "MW * hours / 1000" is an exact integer number of GWh.                  *)
(***************************************************************************)
EXTENDS Integers, Sequences, FiniteSets, TLC

\* ------------------------------------------------------------------ bounds
\* Solver values (MW) range over 0..MaxMW.
MaxMW == 1
\* The input file holds at most MaxRows rows.
MaxRows == 2

\* ------------------------------------------------------------- python values
\* A value that may be missing is a sequence of length at most one: NoValue is
\* python's None (an unset variable, a "." cell of a .tab file), Some(v) is v.
NoValue == << >>
Some(v) == << v >>
HasValue(o) == Len(o) = 1
ValueOf(o) == o[1]
\* error = NoError until an exception ends the run
NoError == "none"

\* ------------------------------------------------- base model (upstream data)
GENERATION_PROJECTS == {"G1", "G2"}
PERIODS == {2020, 2030}
ENERGY_SOURCES == {"Solar", "Gas"}
FUELS == {"Gas"}
TIMEPOINTS == {"T1", "T2", "T3"}

tp_period(t) == IF t = "T1" THEN 2020 ELSE 2030
TPS_IN_PERIOD(p) == {t \in TIMEPOINTS : tp_period(t) = p}
tp_timestamp(t) == t
\* hours of the whole period a timepoint stands for
tp_weight(t) == CASE t = "T1" -> 10000 [] t = "T2" -> 10000 [] OTHER -> 30000
\* hours of one year a timepoint stands for
tp_weight_in_year(t) == CASE t = "T1" -> 1000 [] t = "T2" -> 1000 [] OTHER -> 3000
gen_variable_om(g) == IF g = "G1" THEN 2 ELSE 3
gen_dbid(g) == g
gen_load_zone(g) == "Z1"
\* tCO2 per MWh dispatched from fuel f
co2_per_MWh(f) == IF f = "Gas" THEN 2 ELSE 0

\* The (technology, energy source) a project can have.
ProjectKinds ==
    { [tech |-> "PV", source |-> "Solar"],
      [tech |-> "Steam", source |-> "Solar"],
      [tech |-> "Steam", source |-> "Gas"] }

\* A fixed iteration order of the (project, timepoint) pairs.
AllGenTps ==
    << <<"G1", "T1">>, <<"G1", "T2">>, <<"G1", "T3">>,
       <<"G2", "T1">>, <<"G2", "T2">>, <<"G2", "T3">> >>

\* --------------------------------------------------------------- input file
FilePeriods == {2030, 2040}
FileSources == {"Solar", "Gas", "Coal"}
FileKeys == FilePeriods \X FileSources
\* Max_Curtailment_Rate cells: a rate in tenths, or "." (NoValue).
FileRates == {NoValue, Some(-1), Some(0), Some(2)}
\* The tables a present file can hold, keyed by (Period, Energy_Source).
FileTables ==
    UNION { [K -> FileRates] : K \in {S \in SUBSET FileKeys : Cardinality(S) <= MaxRows} }
EmptyTable == [k \in {} |-> NoValue]
\* The inputs directory: curtailment_rate_max.tab exists or not.
InputDirs ==
    {[exists |-> FALSE, rows |-> EmptyTable]}
        \cup {[exists |-> TRUE, rows |-> tb] : tb \in FileTables}
\* A report file: not written, or its rows.
NotWritten == [written |-> FALSE, rows |-> << >>]

VARIABLES
    commit_loaded,        \* generators.core.commit is in the module list
    gen_kind,             \* project -> its (technology, energy source)
    GEN_TPS,              \* the (project, timepoint) pairs a project is active in
    inputs_dir,           \* curtailment_rate_max.tab: whether it exists, its table
    phase,                \* lifecycle position
    error,                \* the exception that ended the run, or NoError
    components,           \* names attached to the model by define_components
    switch_data,          \* the data portal: the table load_aug has read
    PERIOD_Curtailment_MAX,   \* constructed key set
    max_curtailment_Rate,     \* constructed parameter: key -> rate in tenths
    Dispatch_Curtailment,     \* indices of the constructed equality constraints
    Curtailment_Rate,         \* indices of the constructed rate constraints
    solution,             \* pair of GEN_TPS -> the values of its variables
    dispatch_csv,         \* dispatch.csv
    curtailment_csv       \* Curtailment_energy.csv

vars ==
    << commit_loaded, gen_kind, GEN_TPS, inputs_dir, phase, error, components,
       switch_data, PERIOD_Curtailment_MAX, max_curtailment_Rate,
       Dispatch_Curtailment, Curtailment_Rate, solution, dispatch_csv,
       curtailment_csv >>

baseVars == << commit_loaded, gen_kind, GEN_TPS, inputs_dir >>
instanceVars ==
    << PERIOD_Curtailment_MAX, max_curtailment_Rate, Dispatch_Curtailment,
       Curtailment_Rate >>
reportVars == << dispatch_csv, curtailment_csv >>

gen_tech(g) == gen_kind[g].tech
gen_energy_source(g) == gen_kind[g].source
gen_uses_fuel(g) == gen_energy_source(g) \in FUELS
FUELS_FOR_GEN(g) == IF gen_uses_fuel(g) THEN {gen_energy_source(g)} ELSE {}

\* The pairs of the periods a project is active in.
PairsOf(g, ps) == {<<g, t>> : t \in {u \in TIMEPOINTS : tp_period(u) \in ps}}

Init ==
    /\ commit_loaded \in BOOLEAN
    /\ gen_kind \in {k \in [GENERATION_PROJECTS -> ProjectKinds] : k["G1"].source = "Solar"}
    /\ \E ps \in {{2020}, {2030}} :
           GEN_TPS = PairsOf("G1", {2030}) \cup PairsOf("G2", ps)
    /\ inputs_dir \in InputDirs
    /\ phase = "start"
    /\ error = NoError
    /\ components = {}
    /\ switch_data = EmptyTable
    /\ PERIOD_Curtailment_MAX = {}
    /\ max_curtailment_Rate = EmptyTable
    /\ Dispatch_Curtailment = {}
    /\ Curtailment_Rate = {}
    /\ solution = EmptyTable
    /\ dispatch_csv = NotWritten
    /\ curtailment_csv = NotWritten

\* --------------------------------------------------------- define_components
CurtailmentComponents ==
    { "PERIOD_Curtailment_MAX", "max_curtailment_Rate", "Curtailment",
      "Curtailment_Cost", "Dispatch_Curtailment", "Curtailment_Rate" }

\* The components are declared whatever modules are loaded beside this one.
define_components ==
    /\ phase = "start"
    /\ components' = components \cup CurtailmentComponents
    /\ phase' = "defined"
    /\ UNCHANGED << baseVars, error, switch_data, instanceVars, solution, reportVars >>

\* --------------------------------------------------------------- load_inputs
\* utilities.load_aug: reads the table of a file; a missing file is skipped
\* when the call says optional=True and is an IOError otherwise.
load_aug(dir, optional) ==
    CASE dir.exists -> [raised |-> NoError, read |-> TRUE, table |-> dir.rows]
      [] ~dir.exists /\ optional ->
            [raised |-> NoError, read |-> FALSE, table |-> EmptyTable]
      [] OTHER -> [raised |-> "IOError", read |-> FALSE, table |-> EmptyTable]

\* The call as it would be with optional=True.
load_inputs_optional_true == TRUE

\* The call names filename, select, index and param and nothing else: the
\* file is not optional.
load_inputs_optional == FALSE

load_inputs ==
    /\ phase = "defined"
    /\ LET r == load_aug(inputs_dir, load_inputs_optional) IN
         \/ /\ r.raised # NoError
            /\ error' = r.raised
            /\ phase' = "failed"
            /\ UNCHANGED switch_data
         \/ /\ r.raised = NoError
            /\ switch_data' = r.table
            /\ phase' = "loaded"
            /\ UNCHANGED error
    /\ UNCHANGED << baseVars, components, instanceVars, solution, reportVars >>

\* ------------------------------------------- construction of the components
\* A validate rule that checks the period and forgets the energy source.
validate_period_only(p, e) == p \in PERIODS

\* PERIOD_Curtailment_MAX's validate rule.
validate(p, e) == p \in PERIODS /\ e \in ENERGY_SOURCES

\* max_curtailment_Rate: within=NonNegativeReals, default=1 (10 tenths).
NonNegativeReals(v) == v >= 0
default_rate == 10

\* Curtailment: within=NonNegativeReals.
Curtailment_domain(c) == NonNegativeReals(c)

\* The pairs the Curtailment_Cost and Curtailment_Rate rules iterate over:
\* GENERATION_PROJECTS * TPS_IN_PERIOD[p], filtered by energy source.
RuleTerms(p, e) ==
    {gt \in GENERATION_PROJECTS \X TPS_IN_PERIOD(p) : gen_energy_source(gt[1]) = e}

\* m.Curtailment[g, t] and m.DispatchUpperLimit[g, t] exist for GEN_TPS only:
\* any other index is a KeyError.
TermsDefined(keys) == \A k \in keys : RuleTerms(k[1], k[2]) \subseteq GEN_TPS

\* A parameter that reads its default at any index, in its index set or not.
Param_getitem_default_anywhere(k) ==
    IF k \in DOMAIN max_curtailment_Rate
    THEN [raised |-> NoError, value |-> Some(max_curtailment_Rate[k])]
    ELSE [raised |-> NoError, value |-> Some(default_rate)]

\* Reading the constructed parameter: an index outside its index set is a
\* KeyError; an index with no explicit value reads the default.
Param_getitem(k) ==
    IF k \notin PERIOD_Curtailment_MAX
    THEN [raised |-> "KeyError", value |-> NoValue]
    ELSE IF k \in DOMAIN max_curtailment_Rate
         THEN [raised |-> NoError, value |-> Some(max_curtailment_Rate[k])]
         ELSE [raised |-> NoError, value |-> Some(default_rate)]

\* The variables of one pair before any solve: no value.
Unset(g) ==
    [ DispatchGen |-> NoValue, Curtailment |-> NoValue,
      DispatchUpperLimit |-> NoValue,
      DispatchEmissions |-> [f \in FUELS_FOR_GEN(g) |-> NoValue] ]

\* The model instance is constructed from the loaded data, component by
\* component in declaration order; the first exception ends the run.
create_instance ==
    /\ phase = "loaded"
    /\ LET keys == DOMAIN switch_data
           given == {k \in keys : HasValue(switch_data[k])}
           KeysOK == \A k \in keys : validate(k[1], k[2])
           ValuesOK == \A k \in given : NonNegativeReals(ValueOf(switch_data[k]))
       IN
         \/ /\ ~KeysOK
            /\ error' = "ValueError"
            /\ phase' = "failed"
            /\ UNCHANGED << instanceVars, solution >>
         \/ /\ KeysOK /\ ~ValuesOK
            /\ error' = "ValueError"
            /\ phase' = "failed"
            /\ UNCHANGED << instanceVars, solution >>
         \/ /\ KeysOK /\ ValuesOK /\ ~TermsDefined(keys)
            /\ error' = "KeyError"
            /\ phase' = "failed"
            /\ UNCHANGED << instanceVars, solution >>
         \/ /\ KeysOK /\ ValuesOK /\ TermsDefined(keys)
            /\ PERIOD_Curtailment_MAX' = keys
            /\ max_curtailment_Rate' = [k \in given |-> ValueOf(switch_data[k])]
            /\ Dispatch_Curtailment' = GEN_TPS
            /\ Curtailment_Rate' = keys
            /\ solution' = [gt \in GEN_TPS |-> Unset(gt[1])]
            /\ phase' = "built"
            /\ UNCHANGED error
    /\ UNCHANGED << baseVars, components, switch_data, reportVars >>

\* --------------------------------------------------------------------- solve
RECURSIVE SumFn(_, _)
\* sum(f[x] for x in S)
SumFn(f, S) ==
    IF S = {} THEN 0
    ELSE LET x == CHOOSE y \in S : TRUE IN f[x] + SumFn(f, S \ {x})

\* The rule written as an upper bound instead of an equality.
Dispatch_Curtailment_rule_le(DispatchGen, Curtailment, DispatchUpperLimit) ==
    DispatchGen + Curtailment <= DispatchUpperLimit

\* Dispatch_Curtailment's rule, on the values of one pair.
Dispatch_Curtailment_rule(DispatchGen, Curtailment, DispatchUpperLimit) ==
    DispatchGen + Curtailment = DispatchUpperLimit

\* The rule with the rate left out of the right-hand side.
Curtailment_Rate_rule_no_rate(sol, p, e) ==
    LET terms == RuleTerms(p, e)
        curtailed == [gt \in terms |-> ValueOf(sol[gt].Curtailment) * tp_weight(gt[2])]
        ceiling == [gt \in terms |-> ValueOf(sol[gt].DispatchUpperLimit) * tp_weight(gt[2])]
    IN SumFn(curtailed, terms) <= SumFn(ceiling, terms)

\* Curtailment_Rate's rule for key (p, e), on the values sol gives (the rate
\* is in tenths, hence the 10 on the left).  A key no project matches has no
\* terms: both sums are 0 and the constraint is 0 <= 0.
Curtailment_Rate_rule(sol, p, e) ==
    LET terms == RuleTerms(p, e)
        curtailed == [gt \in terms |-> ValueOf(sol[gt].Curtailment) * tp_weight(gt[2])]
        ceiling == [gt \in terms |-> ValueOf(sol[gt].DispatchUpperLimit) * tp_weight(gt[2])]
    IN 10 * SumFn(curtailed, terms)
           <= ValueOf(Param_getitem(<<p, e>>).value) * SumFn(ceiling, terms)

\* DispatchEmissions[g, t, f] of the base model: tCO2 per hour of the fuel a
\* project burns for its dispatch.
DispatchEmissions_expr(g, DispatchGen) ==
    [f \in FUELS_FOR_GEN(g) |-> Some(DispatchGen * co2_per_MWh(f))]

\* The values one pair's variables can take: dispatch and ceiling within the
\* base model's bounds, curtailment within its declared domain, and the
\* pair's own equality constraint satisfied.
PairValues(g) ==
    { [ DispatchGen |-> Some(dg), Curtailment |-> Some(c),
        DispatchUpperLimit |-> Some(dul),
        DispatchEmissions |-> DispatchEmissions_expr(g, dg) ] :
      <<dg, c, dul>> \in
        { v \in (0..MaxMW) \X ((0 - MaxMW)..MaxMW) \X (0..MaxMW) :
            /\ Curtailment_domain(v[2])
            /\ Dispatch_Curtailment_rule(v[1], v[2], v[3]) } }

\* The pairs of one project.
GenTpsOf(g) == {gt \in GEN_TPS : gt[1] = g}

\* A solution the solver may return: every constructed constraint holds.
Accepted(sol) ==
    /\ \A gt \in Dispatch_Curtailment :
           Dispatch_Curtailment_rule(ValueOf(sol[gt].DispatchGen),
                                     ValueOf(sol[gt].Curtailment),
                                     ValueOf(sol[gt].DispatchUpperLimit))
    /\ \A k \in Curtailment_Rate : Curtailment_Rate_rule(sol, k[1], k[2])

\* Outcomes of a solve that loads no complete solution: no variable has a
\* value, or one variable of one pair has none beside an all-zero start.
ZeroValues(g) ==
    [ DispatchGen |-> Some(0), Curtailment |-> Some(0),
      DispatchUpperLimit |-> Some(0),
      DispatchEmissions |-> [f \in FUELS_FOR_GEN(g) |-> Some(0)] ]
SolvedVariables == {"DispatchGen", "DispatchUpperLimit", "DispatchEmissions"}
WithoutValue(vals, g, name) ==
    CASE name = "DispatchGen" -> [vals EXCEPT !.DispatchGen = NoValue]
      [] name = "DispatchUpperLimit" -> [vals EXCEPT !.DispatchUpperLimit = NoValue]
      [] OTHER -> [vals EXCEPT !.DispatchEmissions = [f \in FUELS_FOR_GEN(g) |-> NoValue]]
IncompleteSolutions ==
    {[gt \in GEN_TPS |-> Unset(gt[1])]}
      \cup { [gt \in GEN_TPS |->
                 IF gt = hole THEN WithoutValue(ZeroValues(gt[1]), gt[1], name)
                 ELSE ZeroValues(gt[1])] :
             hole \in GEN_TPS, name \in SolvedVariables }

\* A value post_solve needs is missing for the pair.
MissingValue(sol, gt) ==
    \/ ~HasValue(sol[gt].DispatchUpperLimit)
    \/ ~HasValue(sol[gt].DispatchGen)
    \/ /\ gen_uses_fuel(gt[1])
       /\ \E f \in FUELS_FOR_GEN(gt[1]) : ~HasValue(sol[gt].DispatchEmissions[f])

solve ==
    /\ phase = "built"
    /\ \/ /\ \E s1 \in [GenTpsOf("G1") -> PairValues("G1")],
                s2 \in [GenTpsOf("G2") -> PairValues("G2")] :
                 LET sol == [gt \in GEN_TPS |-> IF gt[1] = "G1" THEN s1[gt] ELSE s2[gt]]
                 IN /\ Accepted(sol)
                    /\ solution' = sol
          /\ phase' = "solved"
       \/ /\ \E sol \in IncompleteSolutions :
                 /\ \E gt \in GEN_TPS : MissingValue(sol, gt)
                 /\ solution' = sol
          /\ phase' = "unsolved"
    /\ UNCHANGED << baseVars, error, components, switch_data, instanceVars, reportVars >>

\* ---------------------------------------------------------------- post_solve
\* GEN_TPS in iteration order.
GenTpsSeq == SelectSeq(AllGenTps, LAMBDA gt : gt \in GEN_TPS)

\* value(sum(DispatchEmissions[g, t, f] * tp_weight_in_year[t] for f in
\* FUELS_FOR_GEN[g])) if gen_uses_fuel[g] else None
emissions_per_typical_yr(sol, g, t) ==
    IF gen_uses_fuel(g)
    THEN Some(SumFn([f \in FUELS_FOR_GEN(g) |->
                        ValueOf(sol[<<g, t>>].DispatchEmissions[f]) * tp_weight_in_year(t)],
                    FUELS_FOR_GEN(g)))
    ELSE NoValue

\* An entry whose variable cost is taken from the actual dispatch.
detail_record_cost_of_actual(sol, g, t) ==
    [ generation_project |-> g,
      gen_dbid |-> gen_dbid(g),
      gen_tech |-> gen_tech(g),
      gen_load_zone |-> gen_load_zone(g),
      gen_energy_source |-> gen_energy_source(g),
      timestamp |-> tp_timestamp(t),
      tp_weight_in_year_hrs |-> tp_weight_in_year(t),
      period |-> tp_period(t),
      DispatchGen_MW_ideal |-> ValueOf(sol[<<g, t>>].DispatchUpperLimit),
      DispatchGen_MW_actual |-> ValueOf(sol[<<g, t>>].DispatchGen),
      Energy_GWh_typical_yr_ideal |->
          (ValueOf(sol[<<g, t>>].DispatchUpperLimit) * tp_weight_in_year(t)) \div 1000,
      Energy_GWh_typical_yr_actual |->
          (ValueOf(sol[<<g, t>>].DispatchGen) * tp_weight_in_year(t)) \div 1000,
      VariableCost_per_yr |->
          ValueOf(sol[<<g, t>>].DispatchGen) * gen_variable_om(g)
              * tp_weight_in_year(t),
      DispatchEmissions_tCO2_per_typical_yr |-> emissions_per_typical_yr(sol, g, t) ]

\* One entry of dispatch_normalized_dat.
detail_record(sol, g, t) ==
    [ generation_project |-> g,
      gen_dbid |-> gen_dbid(g),
      gen_tech |-> gen_tech(g),
      gen_load_zone |-> gen_load_zone(g),
      gen_energy_source |-> gen_energy_source(g),
      timestamp |-> tp_timestamp(t),
      tp_weight_in_year_hrs |-> tp_weight_in_year(t),
      period |-> tp_period(t),
      DispatchGen_MW_ideal |-> ValueOf(sol[<<g, t>>].DispatchUpperLimit),
      DispatchGen_MW_actual |-> ValueOf(sol[<<g, t>>].DispatchGen),
      Energy_GWh_typical_yr_ideal |->
          (ValueOf(sol[<<g, t>>].DispatchUpperLimit) * tp_weight_in_year(t)) \div 1000,
      Energy_GWh_typical_yr_actual |->
          (ValueOf(sol[<<g, t>>].DispatchGen) * tp_weight_in_year(t)) \div 1000,
      VariableCost_per_yr |->
          ValueOf(sol[<<g, t>>].DispatchUpperLimit) * gen_variable_om(g)
              * tp_weight_in_year(t),
      DispatchEmissions_tCO2_per_typical_yr |-> emissions_per_typical_yr(sol, g, t) ]

\* The list comprehension, entry by entry: the entries made before the first
\* pair with a missing value (all of them when no value is missing).
RECURSIVE dispatch_normalized_dat(_, _, _)
dispatch_normalized_dat(sol, pairs, i) ==
    IF i > Len(pairs) \/ MissingValue(sol, pairs[i]) THEN << >>
    ELSE << detail_record(sol, pairs[i][1], pairs[i][2]) >>
             \o dispatch_normalized_dat(sol, pairs, i + 1)

\* A report that writes each entry as it is made.
csv_streamed(made) == [written |-> TRUE, rows |-> made]

\* What dispatch.csv holds when the comprehension raises after making
\* `made`: to_csv is reached only once the whole list exists.
csv_after_raise(made) == NotWritten

\* A grouping that forgets the period.
group_key_no_period(r) == << r.gen_tech, r.gen_energy_source >>

\* The grouping key of groupby(['gen_tech', 'gen_energy_source', 'period']).
group_key(r) == << r.gen_tech, r.gen_energy_source, r.period >>

\* sum() of a column that holds None: missing entries are skipped.
NanToZero(o) == IF HasValue(o) THEN ValueOf(o) ELSE 0

\* groupby(...).sum(), record by record: a record opens the row of its key
\* or is added to it.
RECURSIVE groupby_sum(_, _, _)
groupby_sum(rows, i, acc) ==
    IF i > Len(rows) THEN acc
    ELSE LET r == rows[i]
             k == group_key(r)
             add == [ Energy_GWh_typical_yr_ideal |-> r.Energy_GWh_typical_yr_ideal,
                      Energy_GWh_typical_yr_actual |-> r.Energy_GWh_typical_yr_actual,
                      VariableCost_per_yr |-> r.VariableCost_per_yr,
                      DispatchEmissions_tCO2_per_typical_yr |->
                          NanToZero(r.DispatchEmissions_tCO2_per_typical_yr) ]
         IN groupby_sum(rows, i + 1,
              IF k \in DOMAIN acc
              THEN [acc EXCEPT ![k] =
                     [ Energy_GWh_typical_yr_ideal |->
                           @.Energy_GWh_typical_yr_ideal + add.Energy_GWh_typical_yr_ideal,
                       Energy_GWh_typical_yr_actual |->
                           @.Energy_GWh_typical_yr_actual + add.Energy_GWh_typical_yr_actual,
                       VariableCost_per_yr |->
                           @.VariableCost_per_yr + add.VariableCost_per_yr,
                       DispatchEmissions_tCO2_per_typical_yr |->
                           @.DispatchEmissions_tCO2_per_typical_yr
                               + add.DispatchEmissions_tCO2_per_typical_yr ]]
              ELSE [x \in DOMAIN acc \cup {k} |-> IF x = k THEN add ELSE acc[x]])

\* annual_summary: one row per key, keyed by (gen_tech, gen_energy_source, period).
annual_summary(rows) == groupby_sum(rows, 1, [k \in {} |-> 0])

post_solve ==
    /\ phase \in {"solved", "unsolved"}
    /\ LET made == dispatch_normalized_dat(solution, GenTpsSeq, 1) IN
         \/ /\ \E gt \in GEN_TPS : MissingValue(solution, gt)
            /\ error' = "ValueError"
            /\ phase' = "failed"
            /\ dispatch_csv' = csv_after_raise(made)
            /\ UNCHANGED curtailment_csv
         \/ /\ \A gt \in GEN_TPS : ~MissingValue(solution, gt)
            /\ dispatch_csv' = [written |-> TRUE, rows |-> made]
            /\ curtailment_csv' = [written |-> TRUE, rows |-> annual_summary(made)]
            /\ phase' = "reported"
            /\ UNCHANGED error
    /\ UNCHANGED << baseVars, components, switch_data, instanceVars, solution >>

Next ==
    \/ define_components
    \/ load_inputs
    \/ create_instance
    \/ solve
    \/ post_solve

Spec == Init /\ [][Next]_vars

\* ================================================================== claims
\* The run has an accepted solution: the solver returned one, and post_solve
\* may have reported it.
HasAcceptedSolution == phase \in {"solved", "reported"}
\* The model instance was constructed.
WasBuilt == phase \in {"built", "solved", "unsolved", "reported"} \/ DOMAIN solution # {}
\* The (period, energy source) pairs of declared periods and sources.
DeclaredPairs == PERIODS \X ENERGY_SOURCES
\* The rows of the input file.
FileRows == inputs_dir.rows

\* C1: in every accepted solution, for every (g, t) of GEN_TPS, Curtailment
\* plus DispatchGen equals DispatchUpperLimit, and Curtailment is >= 0.
C1_DispatchPlusCurtailmentIsCeiling ==
    HasAcceptedSolution =>
        \A gt \in GEN_TPS :
            /\ ValueOf(solution[gt].Curtailment) + ValueOf(solution[gt].DispatchGen)
                   = ValueOf(solution[gt].DispatchUpperLimit)
            /\ ValueOf(solution[gt].Curtailment) >= 0

\* C1 witness: an accepted solution that curtails one pair and dispatches
\* another at its ceiling.
C1_Witness ==
    /\ phase = "solved"
    /\ \E gt \in GEN_TPS : ValueOf(solution[gt].Curtailment) > 0
    /\ \E gt \in GEN_TPS : ValueOf(solution[gt].DispatchGen) > 0

\* The pairs of a constrained key, stated over all projects and timepoints.
PairsOfKey(p, e) ==
    {gt \in GENERATION_PROJECTS \X TIMEPOINTS :
        tp_period(gt[2]) = p /\ gen_energy_source(gt[1]) = e}
WeightedCurtailment(p, e) ==
    SumFn([gt \in PairsOfKey(p, e) |->
              ValueOf(solution[gt].Curtailment) * tp_weight(gt[2])], PairsOfKey(p, e))
WeightedCeiling(p, e) ==
    SumFn([gt \in PairsOfKey(p, e) |->
              ValueOf(solution[gt].DispatchUpperLimit) * tp_weight(gt[2])], PairsOfKey(p, e))
\* The rate of a constrained key in tenths: its explicit value, else the default.
RateOfKey(k) ==
    IF k \in DOMAIN max_curtailment_Rate THEN max_curtailment_Rate[k] ELSE 10

\* C2: in every accepted solution, for every key (p, e) of
\* PERIOD_Curtailment_MAX, the weighted curtailment of the key's pairs is at
\* most max_curtailment_Rate[p, e] times their weighted dispatch ceiling.
C2_CurtailmentWithinRate ==
    HasAcceptedSolution =>
        \A k \in PERIOD_Curtailment_MAX :
            10 * WeightedCurtailment(k[1], k[2])
                <= RateOfKey(k) * WeightedCeiling(k[1], k[2])

\* C2 witness: an accepted solution that curtails under a key whose rate is 0.2.
C2_Witness ==
    /\ phase = "solved"
    /\ \E k \in PERIOD_Curtailment_MAX :
           /\ k \in DOMAIN max_curtailment_Rate
           /\ max_curtailment_Rate[k] = 2
           /\ WeightedCurtailment(k[1], k[2]) > 0

\* C3 as claimed: after the load, reading max_curtailment_Rate yields the listed
\* rate for every key of the file and the default 1 for every pair that is
\* not listed.
C3_UnlistedKeyReadsDefault ==
    WasBuilt =>
        /\ \A k \in DOMAIN FileRows :
               HasValue(FileRows[k]) =>
                   Param_getitem(k) = [raised |-> NoError, value |-> FileRows[k]]
        /\ \A k \in DeclaredPairs \ DOMAIN FileRows :
               Param_getitem(k) = [raised |-> NoError, value |-> Some(10)]

\* C3 as amended: reading max_curtailment_Rate yields the listed rate for every
\* key of the file, the default 1 for a key listed with no rate, and raises
\* KeyError for every pair that is not listed: such a pair is not in
\* PERIOD_Curtailment_MAX.
C3_ListedKeysReadBack ==
    WasBuilt =>
        /\ \A k \in DOMAIN FileRows :
               Param_getitem(k) =
                   [ raised |-> NoError,
                     value |-> IF HasValue(FileRows[k]) THEN FileRows[k] ELSE Some(10) ]
        /\ \A k \in DeclaredPairs \ DOMAIN FileRows :
               /\ k \notin PERIOD_Curtailment_MAX
               /\ Param_getitem(k).raised = "KeyError"

\* C3 witness: a built model whose file lists (2030, Solar, 0.2) and does not
\* list (2030, Gas).
C3_Witness ==
    /\ phase = "built"
    /\ <<2030, "Solar">> \in DOMAIN FileRows
    /\ FileRows[<<2030, "Solar">>] = Some(2)
    /\ <<2030, "Gas">> \notin DOMAIN FileRows

\* C4: when curtailment_rate_max.tab is absent, load_inputs ends the run with
\* a fatal error, nothing is loaded in its place (no key, no default rate),
\* and no Dispatch_Curtailment or Curtailment_Rate constraint is ever built.
C4_MissingFileIsFatal ==
    ~inputs_dir.exists =>
        /\ phase \in {"start", "defined", "failed"}
        /\ phase = "failed" => error = "IOError"
        /\ switch_data = EmptyTable
        /\ PERIOD_Curtailment_MAX = {}
        /\ max_curtailment_Rate = EmptyTable
        /\ Dispatch_Curtailment = {}
        /\ Curtailment_Rate = {}

\* C4 witness: the load has failed on the absent file.
C4_Witness ==
    /\ ~inputs_dir.exists
    /\ phase = "failed"
    /\ error = "IOError"

\* C5: a key is in PERIOD_Curtailment_MAX only if its period is in PERIODS and
\* its energy source in ENERGY_SOURCES; a file with a row of an undeclared
\* period or source makes the build fail, so a built model has no such key.
C5_KeysAreDeclared ==
    /\ \A k \in PERIOD_Curtailment_MAX : k[1] \in PERIODS /\ k[2] \in ENERGY_SOURCES
    /\ (\E k \in DOMAIN FileRows : k \notin DeclaredPairs) =>
           /\ ~WasBuilt
           /\ phase = "failed" => error = "ValueError"

\* C5 witness: the build has failed on a row whose energy source is undeclared
\* and whose period is declared.
C5_Witness ==
    /\ phase = "failed"
    /\ error = "ValueError"
    /\ DOMAIN FileRows = {<<2030, "Coal">>}
    /\ FileRows[<<2030, "Coal">>] = Some(2)

\* C6: loaded together with generators.core.commit, the module raises an error
\* instead of defining its components.
C6_CommitRaisesError ==
    commit_loaded =>
        /\ components \cap CurtailmentComponents = {}
        /\ phase # "start" => error # NoError

\* C7: post_solve emits exactly one record per (g, t) of GEN_TPS, with
\* ideal energy = DispatchUpperLimit * tp_weight_in_year / 1000, actual energy
\* = DispatchGen * tp_weight_in_year / 1000, variable cost = DispatchUpperLimit
\* * gen_variable_om * tp_weight_in_year, and emissions = the sum over the
\* project's fuels of DispatchEmissions * tp_weight_in_year when the project
\* uses fuel, None otherwise.
C7_DetailRecords ==
    phase = "reported" =>
        LET rows == dispatch_csv.rows IN
        /\ dispatch_csv.written
        /\ Len(rows) = Cardinality(GEN_TPS)
        /\ \A gt \in GEN_TPS :
               Cardinality({i \in 1..Len(rows) :
                   rows[i].generation_project = gt[1] /\ rows[i].timestamp = gt[2]}) = 1
        /\ \A i \in 1..Len(rows) :
               LET g == rows[i].generation_project
                   t == rows[i].timestamp
                   v == solution[<<g, t>>]
                   w == tp_weight_in_year(t)
               IN /\ <<g, t>> \in GEN_TPS
                  /\ rows[i].Energy_GWh_typical_yr_ideal * 1000
                         = ValueOf(v.DispatchUpperLimit) * w
                  /\ rows[i].Energy_GWh_typical_yr_actual * 1000
                         = ValueOf(v.DispatchGen) * w
                  /\ rows[i].VariableCost_per_yr
                         = ValueOf(v.DispatchUpperLimit) * gen_variable_om(g) * w
                  /\ rows[i].DispatchEmissions_tCO2_per_typical_yr
                         = IF gen_uses_fuel(g)
                           THEN Some(SumFn([f \in FUELS_FOR_GEN(g) |->
                                               ValueOf(v.DispatchEmissions[f]) * w],
                                           FUELS_FOR_GEN(g)))
                           ELSE NoValue

\* C7 witness: a report with a curtailed record of a project that uses no
\* fuel and a record of a fuel project that emits.
C7_Witness ==
    /\ phase = "reported"
    /\ \E i \in 1..Len(dispatch_csv.rows) :
           LET r == dispatch_csv.rows[i] IN
           /\ r.DispatchGen_MW_ideal > r.DispatchGen_MW_actual
           /\ r.DispatchEmissions_tCO2_per_typical_yr = NoValue
    /\ \E i \in 1..Len(dispatch_csv.rows) :
           LET r == dispatch_csv.rows[i] IN
           /\ HasValue(r.DispatchEmissions_tCO2_per_typical_yr)
           /\ ValueOf(r.DispatchEmissions_tCO2_per_typical_yr) > 0

\* The records of the detail file that carry a (technology, source, period).
RecordsOfTriple(k) ==
    {i \in 1..Len(dispatch_csv.rows) :
        /\ dispatch_csv.rows[i].gen_tech = k[1]
        /\ dispatch_csv.rows[i].gen_energy_source = k[2]
        /\ dispatch_csv.rows[i].period = k[3]}
TriplesOfRecords ==
    { << dispatch_csv.rows[i].gen_tech, dispatch_csv.rows[i].gen_energy_source,
         dispatch_csv.rows[i].period >> : i \in 1..Len(dispatch_csv.rows) }

\* C8: the summary has exactly one row per distinct (gen_tech,
\* gen_energy_source, period) of the detail records, and the row's ideal
\* energy, actual energy and variable cost are the sums of those columns over
\* exactly the records of that triple.
C8_SummaryRows ==
    phase = "reported" =>
        LET rows == dispatch_csv.rows
            summary == curtailment_csv.rows
        IN
        /\ curtailment_csv.written
        /\ DOMAIN summary = TriplesOfRecords
        /\ \A k \in DOMAIN summary :
               /\ summary[k].Energy_GWh_typical_yr_ideal
                      = SumFn([i \in RecordsOfTriple(k) |->
                                  rows[i].Energy_GWh_typical_yr_ideal], RecordsOfTriple(k))
               /\ summary[k].Energy_GWh_typical_yr_actual
                      = SumFn([i \in RecordsOfTriple(k) |->
                                  rows[i].Energy_GWh_typical_yr_actual], RecordsOfTriple(k))
               /\ summary[k].VariableCost_per_yr
                      = SumFn([i \in RecordsOfTriple(k) |->
                                  rows[i].VariableCost_per_yr], RecordsOfTriple(k))

\* C8 witness: a report where two records with energy share a triple and are
\* summed in one row, and a record that differs from them in the period alone
\* stands in a row of its own.
C8_Witness ==
    /\ phase = "reported"
    /\ \E i, j \in 1..Len(dispatch_csv.rows) :
           /\ i # j
           /\ group_key(dispatch_csv.rows[i]) = group_key(dispatch_csv.rows[j])
           /\ dispatch_csv.rows[i].Energy_GWh_typical_yr_actual > 0
           /\ dispatch_csv.rows[j].Energy_GWh_typical_yr_actual > 0
    /\ \E i, j \in 1..Len(dispatch_csv.rows) :
           /\ dispatch_csv.rows[i].gen_tech = dispatch_csv.rows[j].gen_tech
           /\ dispatch_csv.rows[i].gen_energy_source = dispatch_csv.rows[j].gen_energy_source
           /\ dispatch_csv.rows[i].period # dispatch_csv.rows[j].period
           /\ dispatch_csv.rows[j].Energy_GWh_typical_yr_actual > 0
    /\ Cardinality(DOMAIN curtailment_csv.rows) = 2

\* C9: when a solved value post_solve needs is missing for some (g, t) of
\* GEN_TPS, post_solve ends in a fatal error and neither dispatch.csv nor
\* Curtailment_energy.csv has been written.
C9_NoPartialReport ==
    (/\ phase \in {"failed", "reported"}
     /\ \E gt \in DOMAIN solution : MissingValue(solution, gt)) =>
        /\ phase = "failed"
        /\ error = "ValueError"
        /\ dispatch_csv = NotWritten
        /\ curtailment_csv = NotWritten

\* C9 witness: post_solve has failed on a value missing for a pair that is not
\* the first, after complete pairs.
C9_Witness ==
    /\ phase = "failed"
    /\ DOMAIN solution # {}
    /\ MissingValue(solution, GenTpsSeq[Len(GenTpsSeq)])
    /\ ~MissingValue(solution, GenTpsSeq[1])

\* C10: every pair the Curtailment_Cost and Curtailment_Rate rules read is a
\* pair of GEN_TPS, so building the components never reads an undefined
\* variable, also when a project is not active in every timepoint of a
\* constrained period.
C10_BuildReadsOnlyGenTps ==
    (/\ phase \notin {"start", "defined", "loaded"}
     /\ \A k \in DOMAIN switch_data :
            /\ validate(k[1], k[2])
            /\ HasValue(switch_data[k]) => NonNegativeReals(ValueOf(switch_data[k]))) =>
        /\ \A k \in DOMAIN switch_data : RuleTerms(k[1], k[2]) \subseteq GEN_TPS
        /\ error # "KeyError"
====
